---- MODULE Spec2Model ----
(***************************************************************************)
(* easyst/io/print.py: custom_print, a context manager that swaps the      *)
(* process-wide print hook (builtins.print) for a wrapper forwarding to a  *)
(* caller-supplied function, and st_print, which renders each positional   *)
(* argument through a Streamlit call chosen by the argument's type.        *)
(***************************************************************************)
EXTENDS Integers, Sequences, FiniteSets, TLC

\* ------------------------------------------------------------------ bounds
\* custom_print scopes entered in one run (each entry makes a fresh new_print)
MaxScopes == 3
\* nested new_print frames a thread can hold before the interpreter's
\* recursion limit raises RecursionError
MaxDepth == 3
\* render calls the Streamlit host records in one run
MaxLog == 3
\* positional arguments of one direct st_print call
MaxArgs == 2

\* ------------------------------------------------------------------ values
\* A Python value: its class and a printable identity.
Hello == [type |-> "str", v |-> "Hello, world!"]
Empty == [type |-> "str", v |-> ""]
Frame == [type |-> "DataFrame", v |-> "df"]
Mapping == [type |-> "dict", v |-> "{a: 1}"]
Ordered == [type |-> "OrderedDict", v |-> "{b: 2}"]
Listing == [type |-> "list", v |-> "[1, 2]"]
Pair == [type |-> "tuple", v |-> "(1, 2)"]
FortyTwo == [type |-> "int", v |-> "42"]
NoneValue == [type |-> "NoneType", v |-> "None"]

Values == {Hello, Empty, Frame, Mapping, Ordered, Listing, Pair, FortyTwo, NoneValue}

\* The classes a value's class inherits from (itself included).
Bases(type) ==
    CASE type = "OrderedDict" -> {"OrderedDict", "dict", "object"}
      [] OTHER -> {type, "object"}

isinstance(arg, classes) == Bases(arg.type) \cap classes # {}

\* Keyword arguments: a set of <<name, value>> pairs.
NoKwargs == {}
Kwargs == {NoKwargs, {<<"sep", Empty>>}, {<<"data", Frame>>}}

\* Positional arguments of a direct st_print call.
ArgSeqs == UNION {[1..n -> Values] : n \in 0..MaxArgs}

\* Positional arguments the program passes to print inside the scopes.
PrintArgs == {<<>>, <<Hello>>, <<Mapping, FortyTwo>>}
PrintKwargs == {NoKwargs, {<<"sep", Empty>>}}

\* ---------------------------------------------------------------- st_print
\* Variants of the dispatch with one branch changed.
Render_no_json(arg) ==
    IF isinstance(arg, {"str"})
      THEN [fn |-> "st.write", arg |-> arg, path |-> "text"]
    ELSE IF isinstance(arg, {"DataFrame"})
      THEN [fn |-> "st.dataframe", arg |-> arg, path |-> "table"]
    ELSE [fn |-> "st.write", arg |-> arg, path |-> "fallback"]

Render_tuple_json(arg) ==
    IF isinstance(arg, {"str"})
      THEN [fn |-> "st.write", arg |-> arg, path |-> "text"]
    ELSE IF isinstance(arg, {"DataFrame"})
      THEN [fn |-> "st.dataframe", arg |-> arg, path |-> "table"]
    ELSE IF isinstance(arg, {"dict", "list", "tuple"})
      THEN [fn |-> "st.json", arg |-> arg, path |-> "structured"]
    ELSE [fn |-> "st.write", arg |-> arg, path |-> "fallback"]

Render_json_else(arg) ==
    IF isinstance(arg, {"str"})
      THEN [fn |-> "st.write", arg |-> arg, path |-> "text"]
    ELSE IF isinstance(arg, {"DataFrame"})
      THEN [fn |-> "st.dataframe", arg |-> arg, path |-> "table"]
    ELSE [fn |-> "st.json", arg |-> arg, path |-> "structured"]

\* One iteration of st_print's loop: the Streamlit call issued for arg.
Render(arg) ==
    IF isinstance(arg, {"str"})
      THEN [fn |-> "st.write", arg |-> arg, path |-> "text"]
    ELSE IF isinstance(arg, {"DataFrame"})
      THEN [fn |-> "st.dataframe", arg |-> arg, path |-> "table"]
    ELSE IF isinstance(arg, {"dict", "list"})
      THEN [fn |-> "st.json", arg |-> arg, path |-> "structured"]
    ELSE [fn |-> "st.write", arg |-> arg, path |-> "fallback"]

\* A variant that also renders the keyword arguments' values.
st_print_kwargs(args, kwargs) ==
    [i \in 1..Len(args) |-> Render(args[i])]
      \o (IF kwargs = {} THEN <<>> ELSE <<Render((CHOOSE kv \in kwargs : TRUE)[2])>>)

\* st_print(*args, **kwargs): the render calls it issues, in order.
st_print(args, kwargs) == [i \in 1..Len(args) |-> Render(args[i])]

\* ------------------------------------------------------------------- state
VARIABLES
    hook,     \* builtins.print
    frames,   \* per thread: the live custom_print generators, innermost last
    calls,    \* per thread: the active new_print frames, innermost last
    exc,      \* per thread: the exception in flight
    st,       \* the render calls the Streamlit host has received
    nextId,   \* identity of the next new_print closure
    crossed,  \* history: some scope exited while a later-entered one was live
    last      \* history: the most recent completed operation

vars == <<hook, frames, calls, exc, st, nextId, crossed, last>>

Threads == DOMAIN frames

\* The built-in print, and the closure new_print of one custom_print call.
Builtin == [kind |-> "builtin", id |-> 0, redirect_func |-> "none"]
Wrapper(id, f) == [kind |-> "new_print", id |-> id, redirect_func |-> f]

NoExc == [val |-> "none", phase |-> "none"]
\* What the code of a block raises on its own.
Exceptions == {"KeyError"}

\* The functions the program hands to custom_print:
\*   st_print  the renderer above
\*   retval    records nothing and returns a value
\*   raiser    raises ValueError
\*   reprint   calls print(*args, **kwargs) itself
RedirectFuncs == {"st_print", "retval", "raiser", "reprint"}

InitWith(threads) ==
    /\ hook = Builtin
    /\ frames = [t \in threads |-> <<>>]
    /\ calls = [t \in threads |-> <<>>]
    /\ exc = [t \in threads |-> NoExc]
    /\ st = <<>>
    /\ nextId = 1
    /\ crossed = FALSE
    /\ last = [op |-> "none"]

Init == InitWith({1})

Top(s) == s[Len(s)]
Pop(s) == SubSeq(s, 1, Len(s) - 1)

\* Thread t is running program code: no new_print frame is active, no
\* exception is in flight, and its innermost scope (if any) has yielded.
Running(t) ==
    /\ calls[t] = <<>>
    /\ exc[t] = NoExc
    /\ frames[t] # <<>> => Top(frames[t]).pc = "body"

\* The scopes that have been entered and have not exited.
LiveIds == UNION {{frames[t][i].id : i \in 1..Len(frames[t])} : t \in Threads}

\* ------------------------------------------------------------ custom_print
\* A variant that restores the built-in print whatever it found.
custom_print_read_fixed(h, id, f) ==
    [id |-> id, redirect_func |-> f, original_print |-> Builtin, pc |-> "enter",
     pre |-> h, prints |-> 0]

\* Line 20: the generator starts and saves the hook it finds.
custom_print_read(h, id, f) ==
    [id |-> id, redirect_func |-> f, original_print |-> h, pc |-> "enter",
     pre |-> h, prints |-> 0]

\* A variant that forwards the positional arguments only.
new_print_no_kwargs(w, args, kwargs) ==
    [redirect |-> <<[func |-> w.redirect_func, args |-> args, kwargs |-> {}]>>,
     original |-> <<>>,
     ret |-> "None"]

\* Lines 22-23: what one call new_print(*args, **kwargs) does: the calls it
\* makes to redirect_func, the calls it makes to the hook it replaced, and
\* whether it hands redirect_func's result back ("None": it returns nothing).
new_print(w, args, kwargs) ==
    [redirect |-> <<[func |-> w.redirect_func, args |-> args, kwargs |-> kwargs]>>,
     original |-> <<>>,
     ret |-> "None"]

\* Variants without the try/finally, with an except clause that swallows,
\* and without the restoring assignment.
custom_print_exit_no_finally(frame, cur, e) ==
    [hook |-> IF e = NoExc THEN frame.original_print ELSE cur, exc |-> e]

custom_print_exit_swallow(frame, cur, e) ==
    [hook |-> frame.original_print, exc |-> NoExc]

custom_print_exit_keep(frame, cur, e) ==
    [hook |-> cur, exc |-> e]

\* Lines 26-29: leaving the block with exception e in flight (NoExc: none).
\* The finally clause assigns original_print back on every path and the
\* exception, if any, goes on to the caller.
custom_print_exit(frame, cur, e) ==
    [hook |-> frame.original_print, exc |-> e]

\* A variant in which a redirect function's own print is the built-in one.
ResolvePrint_inner_builtin(t) == IF calls[t] # <<>> THEN Builtin ELSE hook

\* The function object the name print denotes when thread t calls it.
ResolvePrint(t) == hook

\* What a redirect function returns when it returns.
FuncReturn(f) == IF f = "retval" THEN "value" ELSE "None"

\* Line 20: `with custom_print(f)` starts the generator in thread t.
EnterRead(t, f) ==
    /\ Running(t)
    /\ nextId <= MaxScopes
    /\ frames' = [frames EXCEPT ![t] = Append(@, custom_print_read(hook, nextId, f))]
    /\ nextId' = nextId + 1
    /\ last' = [op |-> "enter"]
    /\ UNCHANGED <<hook, calls, exc, st, crossed>>

\* Lines 22-27: the closure is installed and the generator yields.
EnterSwap(t) ==
    /\ frames[t] # <<>>
    /\ Top(frames[t]).pc = "enter"
    /\ hook' = Wrapper(Top(frames[t]).id, Top(frames[t]).redirect_func)
    /\ frames' = [frames EXCEPT ![t][Len(frames[t])] =
                     [@ EXCEPT !.pc = "body", !.pre = hook]]
    /\ last' = [op |-> "swap"]
    /\ UNCHANGED <<calls, exc, st, nextId, crossed>>

\* The generator of thread t's innermost scope is resumed or thrown into.
Leave(t) ==
    LET frame == Top(frames[t])
        out == custom_print_exit(frame, hook, exc[t])
    IN  /\ hook' = out.hook
        /\ frames' = [frames EXCEPT ![t] = Pop(@)]
        /\ exc' = [exc EXCEPT ![t] =
                     IF out.exc = NoExc THEN NoExc
                     ELSE [val |-> out.exc.val, phase |-> "delivered"]]
        /\ crossed' = (crossed \/ \E id \in LiveIds : id > frame.id)
        /\ last' = [op |-> "exit", t |-> t, id |-> frame.id,
                    redirect_func |-> frame.redirect_func,
                    pre |-> frame.pre, post |-> out.hook,
                    raised |-> exc[t].val, delivered |-> out.exc.val,
                    prints |-> frame.prints]
        /\ UNCHANGED <<calls, st, nextId>>

\* Lines 27-29: the block ends normally.
Exit(t) ==
    /\ Running(t)
    /\ frames[t] # <<>>
    /\ Leave(t)

\* Lines 27-29: an exception leaves the block.
ExitExc(t) ==
    /\ exc[t] # NoExc
    /\ frames[t] # <<>>
    /\ Leave(t)

\* The block's own code raises e.
RaiseInBlock(t, e) ==
    /\ Running(t)
    /\ frames[t] # <<>>
    /\ exc' = [exc EXCEPT ![t] = [val |-> e, phase |-> "unwinding"]]
    /\ last' = [op |-> "raise"]
    /\ UNCHANGED <<hook, frames, calls, st, nextId, crossed>>

\* The caller of a block (or the thread's top level) handles the exception.
Catch(t) ==
    /\ exc[t].phase \in {"delivered", "toplevel"}
    /\ exc' = [exc EXCEPT ![t] = NoExc]
    /\ last' = [op |-> "catch"]
    /\ UNCHANGED <<hook, frames, calls, st, nextId, crossed>>

\* ------------------------------------------------------- calls of the hook
\* The record of a hook invocation that has returned to its caller.
Completed(t, c, np, viaBuiltin) ==
    [op |-> "print", t |-> t, hook |-> c.wrapper,
     args |-> c.args, kwargs |-> c.kwargs,
     redirect |-> np.redirect,
     original |-> np.original \o viaBuiltin,
     ret |-> IF np.ret = "None" \/ np.redirect = <<>> THEN "None"
             ELSE FuncReturn(np.redirect[1].func),
     funcret |-> IF np.redirect = <<>> THEN "None"
                 ELSE FuncReturn(np.redirect[1].func),
     start |-> Len(st)]

\* An exception raised while thread t runs a hook invocation: every
\* new_print frame unwinds and the exception reaches the block's code.
Unwind(t, e) ==
    /\ calls' = [calls EXCEPT ![t] = <<>>]
    /\ exc' = [exc EXCEPT ![t] =
                 [val |-> e,
                  phase |-> IF frames[t] = <<>> THEN "toplevel" ELSE "unwinding"]]
    /\ last' = [op |-> "print_raised", t |-> t, val |-> e]

\* The program calls print(*args, **kwargs) in thread t.
CallPrint(t, args, kwargs) ==
    /\ Running(t)
    /\ LET h == ResolvePrint(t)
           c == [wrapper |-> h, args |-> args, kwargs |-> kwargs]
       IN  IF h.kind = "builtin"
             THEN /\ last' = Completed(t, c, [redirect |-> <<>>, original |-> <<>>,
                                             ret |-> "None"],
                                      <<[args |-> args, kwargs |-> kwargs]>>)
                  /\ UNCHANGED calls
             ELSE /\ calls' = [calls EXCEPT ![t] = Append(@, c)]
                  /\ last' = [op |-> "call"]
    /\ frames' = [frames EXCEPT ![t] =
                    IF @ = <<>> THEN @
                    ELSE [@ EXCEPT ![Len(@)].prints = IF @ < 2 THEN @ + 1 ELSE @]]
    /\ UNCHANGED <<hook, exc, st, nextId, crossed>>

\* Line 23 with a redirect_func that returns (st_print, retval), or a
\* new_print that calls none: the invocation returns to its caller.
ForwardReturn(t) ==
    /\ calls[t] # <<>>
    /\ LET c == Top(calls[t])
           np == new_print(c.wrapper, c.args, c.kwargs)
       IN  /\ np.redirect # <<>> => np.redirect[1].func \in {"st_print", "retval"}
           /\ IF np.redirect # <<>> /\ np.redirect[1].func = "st_print"
                THEN /\ Len(st) + Len(np.redirect[1].args) <= MaxLog
                     /\ st' = st \o st_print(np.redirect[1].args, np.redirect[1].kwargs)
                ELSE UNCHANGED st
           /\ calls' = [calls EXCEPT ![t] = <<>>]
           /\ last' = Completed(t, calls[t][1],
                                new_print(calls[t][1].wrapper, calls[t][1].args,
                                          calls[t][1].kwargs),
                                <<>>)
    /\ UNCHANGED <<hook, frames, exc, nextId, crossed>>

\* Line 23 with a redirect_func that raises.
ForwardRaise(t) ==
    /\ calls[t] # <<>>
    /\ LET c == Top(calls[t])
           np == new_print(c.wrapper, c.args, c.kwargs)
       IN  /\ np.redirect # <<>>
           /\ np.redirect[1].func = "raiser"
    /\ Unwind(t, "ValueError")
    /\ UNCHANGED <<hook, frames, st, nextId, crossed>>

\* Line 23 with a redirect_func that calls print(*args, **kwargs) itself:
\* the call goes to whatever print denotes now.
ForwardReprint(t) ==
    /\ calls[t] # <<>>
    /\ LET c == Top(calls[t])
           np == new_print(c.wrapper, c.args, c.kwargs)
           h == ResolvePrint(t)
       IN  /\ np.redirect # <<>>
           /\ np.redirect[1].func = "reprint"
           /\ IF Len(calls[t]) >= MaxDepth
                THEN /\ Unwind(t, "RecursionError")
                ELSE /\ UNCHANGED exc
                     /\ IF h.kind = "builtin"
                          THEN /\ calls' = [calls EXCEPT ![t] = <<>>]
                               /\ last' = Completed(t, calls[t][1],
                                      new_print(calls[t][1].wrapper, calls[t][1].args,
                                                calls[t][1].kwargs),
                                      <<[args |-> np.redirect[1].args,
                                         kwargs |-> np.redirect[1].kwargs]>>)
                          ELSE /\ calls' = [calls EXCEPT ![t] = Append(@,
                                      [wrapper |-> h, args |-> np.redirect[1].args,
                                       kwargs |-> np.redirect[1].kwargs])]
                               /\ last' = [op |-> "call"]
    /\ UNCHANGED <<hook, frames, st, nextId, crossed>>

\* The program calls st_print(*args, **kwargs) directly.
StPrintDirect(args, kwargs) ==
    /\ Len(st) + Len(args) <= MaxLog
    /\ st' = st \o st_print(args, kwargs)
    /\ last' = [op |-> "st_print", args |-> args, kwargs |-> kwargs, start |-> Len(st)]
    /\ UNCHANGED <<hook, frames, calls, exc, nextId, crossed>>

\* ---------------------------------------------------------- specifications
Next ==
    \/ \E t \in Threads, f \in RedirectFuncs : EnterRead(t, f)
    \/ \E t \in Threads : EnterSwap(t)
    \/ \E t \in Threads : Exit(t)
    \/ \E t \in Threads : ExitExc(t)
    \/ \E t \in Threads, e \in Exceptions : RaiseInBlock(t, e)
    \/ \E t \in Threads : Catch(t)
    \/ \E t \in Threads, args \in PrintArgs, kwargs \in PrintKwargs :
          CallPrint(t, args, kwargs)
    \/ \E t \in Threads : ForwardReturn(t)
    \/ \E t \in Threads : ForwardRaise(t)
    \/ \E t \in Threads : ForwardReprint(t)

\* One thread: the usage the module is written for.
Spec == Init /\ [][Next]_vars

\* Two threads sharing builtins.print, each running blocks that print one
\* greeting through a function that returns or through one that raises.
ThreadInit == InitWith({1, 2})

ThreadNext ==
    \/ \E t \in Threads, f \in {"retval", "raiser"} : EnterRead(t, f)
    \/ \E t \in Threads : EnterSwap(t)
    \/ \E t \in Threads : Exit(t)
    \/ \E t \in Threads : ExitExc(t)
    \/ \E t \in Threads : Catch(t)
    \/ \E t \in Threads : CallPrint(t, <<Hello>>, NoKwargs)
    \/ \E t \in Threads : ForwardReturn(t)
    \/ \E t \in Threads : ForwardRaise(t)

ThreadSpec == ThreadInit /\ [][ThreadNext]_vars

\* Direct calls of the renderer.
RenderNext == \E args \in ArgSeqs, kwargs \in Kwargs : StPrintDirect(args, kwargs)
RenderSpec == Init /\ [][RenderNext]_vars

\* ------------------------------------------------------------------ claims
\* The render calls issued by the most recent direct st_print call.
Rendered == SubSeq(st, last.start + 1, Len(st))

\* C5: st_print issues exactly one render call per positional argument, in
\* the order of the arguments and each with its own argument; a string goes
\* to the text path; keyword arguments add no render call; no positional
\* argument, no render call.
C5_OneRenderPerArgInOrder ==
    last.op = "st_print" =>
        /\ Len(Rendered) = Len(last.args)
        /\ \A i \in 1..Len(last.args) :
              /\ Rendered[i].arg = last.args[i]
              /\ last.args[i].type = "str" => Rendered[i].path = "text"

C5_Witness ==
    /\ last.op = "st_print"
    /\ last.args = <<Hello, Empty>>
    /\ last.kwargs = {<<"data", Frame>>}
    /\ Len(Rendered) = 2

\* C6: the dispatch follows the reference table: a string is written as
\* text, a DataFrame goes to st.dataframe, a dict such as {"a": 1} goes to
\* st.json and not to the text path, each with the value itself.
C6_DispatchTable ==
    last.op = "st_print" =>
        \A i \in 1..Len(Rendered) :
            LET r == Rendered[i] IN
            /\ r.arg.type = "str" =>
                  r = [fn |-> "st.write", arg |-> last.args[i], path |-> "text"]
            /\ r.arg.type = "DataFrame" =>
                  r = [fn |-> "st.dataframe", arg |-> last.args[i], path |-> "table"]
            /\ r.arg.type = "dict" =>
                  r = [fn |-> "st.json", arg |-> last.args[i], path |-> "structured"]

C6_Witness ==
    /\ last.op = "st_print"
    /\ last.args = <<Frame, Mapping>>
    /\ Rendered = <<[fn |-> "st.dataframe", arg |-> Frame, path |-> "table"],
                    [fn |-> "st.json", arg |-> Mapping, path |-> "structured"]>>

\* C7 as stated: every dict, list and tuple is rendered through st.json.
C7_TuplesToo ==
    last.op = "st_print" =>
        \A i \in 1..Len(Rendered) :
            Rendered[i].arg.type \in {"dict", "OrderedDict", "list", "tuple"} =>
                Rendered[i].fn = "st.json"

\* C7 amended: every dict (and dict subclass) and every list is rendered
\* through st.json; a tuple is not: it takes the fallback st.write.
C7_DictAndListOnly ==
    last.op = "st_print" =>
        \A i \in 1..Len(Rendered) :
            LET r == Rendered[i] IN
            /\ r.arg.type \in {"dict", "OrderedDict", "list"} =>
                  r.fn = "st.json" /\ r.path = "structured"
            /\ r.arg.type = "tuple" =>
                  r.fn = "st.write" /\ r.path = "fallback"

C7_Witness ==
    /\ last.op = "st_print"
    /\ last.args = <<Listing, Pair>>
    /\ Rendered[1].fn = "st.json"
    /\ Rendered[2].fn = "st.write"

\* C8: a value that is no string, no DataFrame, no dict and no list (42,
\* None) takes the fallback st.write and no other path, and st_print
\* raises nothing.
C8_Fallback ==
    last.op = "st_print" =>
        /\ \A i \in 1..Len(Rendered) :
              Rendered[i].arg.type \in {"int", "NoneType"} =>
                  Rendered[i] = [fn |-> "st.write", arg |-> last.args[i],
                                 path |-> "fallback"]
        /\ \A t \in Threads : exc[t] = NoExc

C8_Witness ==
    /\ last.op = "st_print"
    /\ last.args = <<FortyTwo>>
    /\ Rendered = <<[fn |-> "st.write", arg |-> FortyTwo, path |-> "fallback"]>>

\* C1: when a block entered through custom_print has exited, normally or by
\* an exception and after any number of prints inside it, builtins.print is
\* the hook that was active just before the block was entered.
C1_HookRestoredOnExit ==
    last.op = "exit" => (last.post = last.pre /\ hook = last.pre)

C1_Witness ==
    /\ last.op = "exit"
    /\ last.raised = "KeyError"
    /\ last.prints = 2
    /\ last.pre.kind = "new_print"
    /\ hook = last.pre

\* C2: with two scopes nested, the inner scope's exit leaves the outer
\* scope's new_print as the hook, not the hook from before the outer scope;
\* the outer scope's exit then restores that earlier hook.
C2_NestedRestore ==
    last.op = "exit" =>
        LET outer == frames[last.t] IN
        IF outer # <<>>
          THEN /\ hook = Wrapper(Top(outer).id, Top(outer).redirect_func)
               /\ hook # Top(outer).pre
          ELSE hook = Builtin

C2_Witness ==
    /\ last.op = "exit"
    /\ Len(frames[last.t]) = 1
    /\ hook = Wrapper(Top(frames[last.t]).id, Top(frames[last.t]).redirect_func)
    /\ Top(frames[last.t]).pre = Builtin
    /\ last.redirect_func # Top(frames[last.t]).redirect_func

\* C3: an exception that leaves a custom_print block, raised by the block's
\* code or by the redirect function during a print, reaches the caller of
\* the block as the same exception, and when the caller has it the hook is
\* already the one from before the block; the scope never swallows it.
C3_ExceptionPropagates ==
    /\ \A t \in Threads :
          exc[t].phase = "delivered" =>
              /\ last.op = "exit"
              /\ last.t = t
              /\ last.raised = exc[t].val
              /\ hook = last.pre
    /\ (last.op = "exit" /\ last.raised # "none") =>
          exc[last.t] = [val |-> last.raised, phase |-> "delivered"]

C3_Witness ==
    /\ exc[1] = [val |-> "ValueError", phase |-> "delivered"]
    /\ last.op = "exit"
    /\ last.redirect_func = "raiser"
    /\ last.prints = 1
    /\ hook = Builtin

\* C4: while a scope is active, one call of the hook makes exactly one call
\* of the redirect function, with the same positional and keyword
\* arguments, makes no call of the hook it replaced, and returns None even
\* when the redirect function returns a value.
C4_ForwardsOnce ==
    (last.op = "print" /\ last.hook.kind = "new_print") =>
        /\ last.redirect = <<[func |-> last.hook.redirect_func,
                              args |-> last.args, kwargs |-> last.kwargs]>>
        /\ last.original = <<>>
        /\ last.ret = "None"

C4_Witness ==
    /\ last.op = "print"
    /\ last.hook.kind = "new_print"
    /\ last.hook.redirect_func = "retval"
    /\ last.funcret = "value"
    /\ last.ret = "None"
    /\ last.args = <<Mapping, FortyTwo>>
    /\ last.kwargs = {<<"sep", Empty>>}

\* Every custom_print block of every thread has exited.
AllExited == \A t \in Threads : frames[t] = <<>>

\* C9: with two threads, a state is reachable in which every scope has
\* exited and builtins.print is still the new_print of an exited scope; it
\* arises only when the scopes' entries and exits were not properly nested
\* (a scope exited while a later-entered one was live).
C9_StaleHookOnlyWhenCrossed ==
    (AllExited /\ hook # Builtin) =>
        /\ crossed
        /\ hook.kind = "new_print"
        /\ hook.id < nextId
        /\ hook.id \notin LiveIds

C9_Witness ==
    /\ AllExited
    /\ hook.kind = "new_print"
    /\ nextId = 3
    /\ crossed
    /\ \A t \in Threads : exc[t] = NoExc /\ calls[t] = <<>>

\* C10: a redirect function that calls print while its scope is active
\* re-enters the same new_print (the call never reaches the built-in
\* print), and such a hook invocation never returns to its caller.
C10_ReprintNeverReturns ==
    /\ \A t \in Threads : \A i \in 2..Len(calls[t]) :
          /\ calls[t][i].wrapper = calls[t][i - 1].wrapper
          /\ calls[t][i].wrapper.kind = "new_print"
          /\ calls[t][i].args = calls[t][i - 1].args
    /\ \A t \in Threads : \A i \in 1..Len(calls[t]) :
          /\ calls[t][i].wrapper = hook
          /\ frames[t] # <<>>
          /\ hook = Wrapper(Top(frames[t]).id, Top(frames[t]).redirect_func)
    /\ last.op = "print" => last.hook.redirect_func # "reprint"

C10_Witness ==
    /\ Len(calls[1]) >= 2
    /\ Top(calls[1]).wrapper.redirect_func = "reprint"
    /\ Top(calls[1]).wrapper = hook

====
